---- MODULE Spec2Model ----
(***************************************************************************)
(* horsesolver: a puzzle (grid of cells, one horse, paired portals, a      *)
(* block budget) is parsed, handed to solve_optimal (a CP-SAT model whose  *)
(* assignments are modelled here by their constraints), and the Solution   *)
(* is checked by verify_solution with its own breadth-first searches.      *)
(***************************************************************************)
EXTENDS Integers, Sequences, FiniteSets, TLC

VARIABLES raw, error, p, pc, sol, order, status, report

vars == <<raw, error, p, pc, sol, order, status, report>>

(***************************************************************************)
(* Bounds of the explored inputs.                                          *)
(***************************************************************************)
\* largest block budget (max_blocks) of an explored puzzle
MaxBlocks == 1
\* most non-wall cells of an explored puzzle besides the horse
MaxOpen == 2
\* most blocks of a hand-made Solution given to verify_solution
MaxCandBlocks == 1

\* the grid shapes <<rows, cols>> of the explored puzzles
Shapes == {<<3, 5>>}
\* the cells the horse is put on (interior and boundary ones)
HorseCells == {<<1, 1>>, <<1, 2>>, <<0, 1>>, <<1, 0>>}
\* tokens of the non-wall, non-horse, non-portal cells explored
OpenTokens == {".", "E"}
\* the portal token explored (one pair per puzzle), and its compact character
PortalToken == "P0"
PortalChar == "0"
\* the formats of the explored inputs
Formats == {"expanded", "compact"}
\* the cells that may be non-wall: the interior row and one cell of the top,
\* left and right sides
FreeCells == {<<1, 1>>, <<1, 2>>, <<1, 3>>, <<0, 1>>, <<1, 0>>, <<1, 4>>}
\* the scores a hand-made Solution claims
CandScores == {0, 1, 2}

None == [none |-> TRUE, path |-> <<>>]

(***************************************************************************)
(* parser.py                                                               *)
(***************************************************************************)
Cell(token, kind, value, portal_id) ==
    [token |-> token, kind |-> kind, value |-> value, portal_id |-> portal_id]

\* _cell_from_token, on the tokens it accepts
_cell_from_token(tok) ==
    CASE tok \in {"W", "~"} -> Cell("W", "wall", 0, "")
      [] tok = "B" -> Cell("B", "wall", 0, "")
      [] tok \in {".", "AIR", "_"} -> Cell(".", "air", 1, "")
      [] tok = "H" -> Cell("H", "horse", 1, "")
      [] tok = "C" -> Cell("C", "item", 3, "")
      [] tok = "A" -> Cell("A", "item", 10, "")
      [] tok \in {"E", "BEE", "Bee"} -> Cell("E", "item", 0 - 5, "")
      [] tok = "P0" -> Cell("P0", "portal", 1, "0")
      [] tok = "P1" -> Cell("P1", "portal", 1, "1")

\* the coordinates of a rows x cols grid
Coords(rows, cols) == {<<r, c>> : r \in 0..(rows - 1), c \in 0..(cols - 1)}

\* row-major order of coordinates, the order the parser scans the grid in
RowMajorLess(a, b) == a[1] < b[1] \/ (a[1] = b[1] /\ a[2] < b[2])

\* the elements of a set of coordinates as a row-major sorted sequence
RECURSIVE SortedCoords(_)
SortedCoords(S) ==
    IF S = {} THEN <<>>
    ELSE LET m == CHOOSE x \in S : \A y \in S \ {x} : RowMajorLess(x, y)
         IN <<m>> \o SortedCoords(S \ {m})

\* _compact_char_to_token, on the characters it accepts
_compact_char_to_token(ch) ==
    CASE ch = "~" -> "W"
      [] ch = "." -> "."
      [] ch \in {"W", "H", "A", "C", "E", "B"} -> ch
      [] ch = "0" -> "P0"
      [] ch = "1" -> "P1"

\* the Puzzle _parse_expanded and _parse_compact build from a grid of tokens
\* that passes their checks (one horse, every portal label twice)
ParsePuzzle(rows, cols, max_blocks, toks) ==
    LET grid == [r \in 0..(rows - 1) |->
                   [c \in 0..(cols - 1) |-> _cell_from_token(toks[r][c])]]
        all == Coords(rows, cols)
        pids == {grid[rc[1]][rc[2]].portal_id :
                   rc \in {x \in all : grid[x[1]][x[2]].kind = "portal"}}
    IN [rows |-> rows, cols |-> cols, max_blocks |-> max_blocks, grid |-> grid,
        horse |-> CHOOSE rc \in all : grid[rc[1]][rc[2]].kind = "horse",
        portals |-> [pid \in pids |->
            SortedCoords({rc \in all : grid[rc[1]][rc[2]].kind = "portal"
                                       /\ grid[rc[1]][rc[2]].portal_id = pid})]]

\* no Puzzle: the parser raised, or has not run yet
NoPuzzle ==
    [rows |-> 0, cols |-> 0, max_blocks |-> 0, grid |-> <<>>, horse |-> <<>>,
     portals |-> <<>>]

\* the result of a parse: the message of the ValueError raised ("" for none)
\* and the Puzzle returned
Parsed(err, puzzle) == [error |-> err, puzzle |-> puzzle]

\* the scan of the grid shared by _parse_expanded and _parse_compact, on a
\* grid of rows x cols accepted tokens: a second horse raises during the scan,
\* no horse after it, then _validate_portals
ScanGrid(rows, cols, max_blocks, toks) ==
    LET all == Coords(rows, cols)
        cell(rc) == _cell_from_token(toks[rc[1]][rc[2]])
        horses == {rc \in all : cell(rc).kind = "horse"}
        portal == {rc \in all : cell(rc).kind = "portal"}
        pids == {cell(rc).portal_id : rc \in portal}
        count(pid) == Cardinality({rc \in portal : cell(rc).portal_id = pid})
    IN IF Cardinality(horses) > 1 THEN Parsed("Multiple horses found.", NoPuzzle)
       ELSE IF horses = {} THEN Parsed("No horse (H) found.", NoPuzzle)
       ELSE IF \E pid \in pids : count(pid) # 2
       THEN Parsed("Portal must appear exactly twice", NoPuzzle)
       ELSE Parsed("", ParsePuzzle(rows, cols, max_blocks, toks))

\* _parse_expanded: the grid lines hold tokens
_parse_expanded(in) == ScanGrid(in.rows, in.cols, in.max_blocks, in.lines)

\* _parse_compact: the grid lines hold one character per cell
_parse_compact(in) ==
    ScanGrid(in.rows, in.cols, in.max_blocks,
             [r \in 0..(in.rows - 1) |->
                [c \in 0..(in.cols - 1) |-> _compact_char_to_token(in.lines[r][c])]])

\* parse_puzzle_file: the format is told from the first line
parse_puzzle_file(in) ==
    IF in.format = "expanded" THEN _parse_expanded(in) ELSE _parse_compact(in)

(***************************************************************************)
(* grid.py                                                                 *)
(***************************************************************************)
in_bounds(q, r, c) == 0 <= r /\ r < q.rows /\ 0 <= c /\ c < q.cols

\* mutant of is_boundary: the last column is compared with cols
is_boundary_LastCol(q, rc) ==
    rc[1] = 0 \/ rc[1] = q.rows - 1 \/ rc[2] = 0 \/ rc[2] = q.cols

is_boundary(q, rc) ==
    rc[1] = 0 \/ rc[1] = q.rows - 1 \/ rc[2] = 0 \/ rc[2] = q.cols - 1

\* mutant of neighbors_4: the left neighbour is left out
neighbors_4_NoLeft(q, rc) ==
    LET r == rc[1]
        c == rc[2]
        cand == <<<<r - 1, c>>, <<r + 1, c>>, <<r, c + 1>>>>
        Inside(x) == in_bounds(q, x[1], x[2])
    IN SelectSeq(cand, Inside)

neighbors_4(q, rc) ==
    LET r == rc[1]
        c == rc[2]
        cand == <<<<r - 1, c>>, <<r + 1, c>>, <<r, c - 1>>, <<r, c + 1>>>>
        Inside(x) == in_bounds(q, x[1], x[2])
    IN SelectSeq(cand, Inside)

KindAt(q, rc) == q.grid[rc[1]][rc[2]].kind

ValueAt(q, rc) == q.grid[rc[1]][rc[2]].value

\* mutant of PortalEdges: only the edge from the first cell of a pair to the
\* second is added
RECURSIVE PortalEdges_OneWay(_, _, _)
PortalEdges_OneWay(q, rc, pids) ==
    IF pids = {} THEN <<>>
    ELSE LET pid == CHOOSE x \in pids : TRUE
             a == q.portals[pid][1]
             b == q.portals[pid][2]
         IN (IF rc = a THEN <<b>> ELSE <<>>) \o PortalEdges_OneWay(q, rc, pids \ {pid})

\* the portal edges build_adjacency appends to the list of rc, label by label
RECURSIVE PortalEdges(_, _, _)
PortalEdges(q, rc, pids) ==
    IF pids = {} THEN <<>>
    ELSE LET pid == CHOOSE x \in pids : TRUE
             a == q.portals[pid][1]
             b == q.portals[pid][2]
         IN (IF rc = a THEN <<b>> ELSE <<>>) \o (IF rc = b THEN <<a>> ELSE <<>>)
            \o PortalEdges(q, rc, pids \ {pid})

\* build_adjacency: non-wall coordinate -> list of coordinates one move away
build_adjacency(q) ==
    LET NonWall(x) == KindAt(q, x) # "wall"
        keys == {rc \in Coords(q.rows, q.cols) : NonWall(rc)}
    IN [rc \in keys |->
          SelectSeq(neighbors_4(q, rc), NonWall)
            \o PortalEdges(q, rc, DOMAIN q.portals)]

(***************************************************************************)
(* verify.py                                                               *)
(***************************************************************************)
\* _build_portal_pair: portal coordinate -> its partner
_build_portal_pair(q) ==
    LET ends == UNION {{q.portals[pid][1], q.portals[pid][2]} : pid \in DOMAIN q.portals}
    IN [rc \in ends |->
          LET pid == CHOOSE x \in DOMAIN q.portals :
                        rc \in {q.portals[x][1], q.portals[x][2]}
          IN IF rc = q.portals[pid][1] THEN q.portals[pid][2] ELSE q.portals[pid][1]]

\* the nested passable() of compute_reachable and find_escape_path
passable(q, blocks, rc) ==
    IF KindAt(q, rc) = "wall" THEN FALSE
    ELSE IF rc \in blocks THEN FALSE
    ELSE TRUE

\* mutant of ReachMoves: the portal jump is left out
ReachMoves_NoPortal(q, u) == neighbors_4(q, u)

\* the moves compute_reachable tries from u, in order: the 4 neighbours, then
\* the portal jump of a portal cell (portal_pair.get(u) may be missing)
ReachMoves(q, u) ==
    LET pair == _build_portal_pair(q)
    IN neighbors_4(q, u)
         \o (IF KindAt(q, u) = "portal" /\ u \in DOMAIN pair THEN <<pair[u]>> ELSE <<>>)

\* one pass over the moves of u: every passable, unseen v is marked and queued
RECURSIVE ReachVisit(_, _, _, _, _)
ReachVisit(q, blocks, cands, queue, seen) ==
    IF cands = <<>> THEN [queue |-> queue, seen |-> seen]
    ELSE LET v == Head(cands)
         IN IF passable(q, blocks, v) /\ v \notin seen
            THEN ReachVisit(q, blocks, Tail(cands), Append(queue, v), seen \cup {v})
            ELSE ReachVisit(q, blocks, Tail(cands), queue, seen)

\* the while loop of compute_reachable
RECURSIVE ReachLoop(_, _, _, _)
ReachLoop(q, blocks, queue, seen) ==
    IF queue = <<>> THEN seen
    ELSE LET u == Head(queue)
             nxt == ReachVisit(q, blocks, ReachMoves(q, u), Tail(queue), seen)
         IN ReachLoop(q, blocks, nxt.queue, nxt.seen)

compute_reachable(q, blocks) == ReachLoop(q, blocks, <<q.horse>>, {q.horse})

\* mutant of score_region: the cells are counted, their values not read
score_region_Count(q, region) == Cardinality(region)

RECURSIVE score_region(_, _)
score_region(q, region) ==
    IF region = {} THEN 0
    ELSE LET rc == CHOOSE x \in region : TRUE
         IN ValueAt(q, rc) + score_region(q, region \ {rc})

\* mutant of EscapeMoves: the portal jump is left out
EscapeMoves_NoPortal(q, u) == neighbors_4(q, u)

\* the moves find_escape_path tries from u: its own copy of the same loop body
EscapeMoves(q, u) ==
    LET pair == _build_portal_pair(q)
    IN neighbors_4(q, u)
         \o (IF KindAt(q, u) = "portal" /\ u \in DOMAIN pair THEN <<pair[u]>> ELSE <<>>)

\* one pass over the moves of u in find_escape_path: prev[v] = u
RECURSIVE EscapeVisit(_, _, _, _, _, _)
EscapeVisit(q, blocks, u, cands, queue, prev) ==
    IF cands = <<>> THEN [queue |-> queue, prev |-> prev]
    ELSE LET v == Head(cands)
         IN IF passable(q, blocks, v) /\ v \notin DOMAIN prev
            THEN EscapeVisit(q, blocks, u, Tail(cands), Append(queue, v),
                             [x \in (DOMAIN prev) \cup {v} |-> IF x = v THEN <<u>> ELSE prev[x]])
            ELSE EscapeVisit(q, blocks, u, Tail(cands), queue, prev)

\* mutant of PathTo: path.reverse() is forgotten
RECURSIVE PathTo_NoReverse(_, _)
PathTo_NoReverse(prev, cur) ==
    IF prev[cur] = <<>> THEN <<cur>>
    ELSE <<cur>> \o PathTo_NoReverse(prev, prev[cur][1])

\* the path reconstruction: follow prev from cur back to the start (prev = None,
\* written <<>>), the result already reversed
RECURSIVE PathTo(_, _)
PathTo(prev, cur) ==
    IF prev[cur] = <<>> THEN <<cur>>
    ELSE Append(PathTo(prev, prev[cur][1]), cur)

\* the while loop of find_escape_path
RECURSIVE EscapeLoop(_, _, _, _)
EscapeLoop(q, blocks, queue, prev) ==
    IF queue = <<>> THEN None
    ELSE LET u == Head(queue)
         IN IF is_boundary(q, u) /\ passable(q, blocks, u)
            THEN [none |-> FALSE, path |-> PathTo(prev, u)]
            ELSE LET nxt == EscapeVisit(q, blocks, u, EscapeMoves(q, u), Tail(queue), prev)
                 IN EscapeLoop(q, blocks, nxt.queue, nxt.prev)

find_escape_path(q, blocks) ==
    EscapeLoop(q, blocks, <<q.horse>>, [x \in {q.horse} |-> <<>>])

\* a report string of verify_solution: its level ("INVALID", "WARNING", "OK"),
\* its text, and the values formatted into it
Report(level, what, at, token, path, solver, computed) ==
    [level |-> level, what |-> what, at |-> at, token |-> token, path |-> path,
     solver |-> solver, computed |-> computed]

\* mutant of FirstNonAir: only a block on a wall is refused
RECURSIVE FirstNonAir_WallOnly(_, _, _)
FirstNonAir_WallOnly(q, ord, i) ==
    IF i > Len(ord) THEN 0
    ELSE IF KindAt(q, ord[i]) = "wall" THEN i
    ELSE FirstNonAir_WallOnly(q, ord, i + 1)

\* the first block of the iteration over sol.blocks that is not on air
\* (0: none); ord is the order the set is iterated in
RECURSIVE FirstNonAir(_, _, _)
FirstNonAir(q, ord, i) ==
    IF i > Len(ord) THEN 0
    ELSE IF KindAt(q, ord[i]) # "air" THEN i
    ELSE FirstNonAir(q, ord, i + 1)

\* mutant of ReachableDiffers: an empty sol.reachable is compared too
ReachableDiffers_EmptyToo(s, region) == s.reachable # region

\* if sol.reachable and sol.reachable != region
ReachableDiffers(s, region) == s.reachable # {} /\ s.reachable # region

\* verify_solution(p, sol); ord is the iteration order of the set sol.blocks
verify_solution(q, s, ord) ==
    LET bad == FirstNonAir(q, ord, 1)
        region == compute_reachable(q, s.blocks)
        escapes == {rc \in region : is_boundary(q, rc)}
        path == find_escape_path(q, s.blocks)
        computed_score == score_region(q, region)
    IN IF bad # 0
       THEN Report("INVALID", "block placed on non-air", <<ord[bad]>>,
                   q.grid[ord[bad][1]][ord[bad][2]].token, <<>>, 0, 0)
       ELSE IF escapes # {}
       THEN IF ~path.none /\ path.path # <<>>
            THEN Report("INVALID", "horse can escape; example path", <<>>, "",
                        path.path, 0, 0)
            ELSE Report("INVALID", "horse can reach boundary cell(s).", <<>>, "",
                        <<>>, 0, 0)
       ELSE IF computed_score # s.max_score
       THEN Report("INVALID", "score mismatch", <<>>, "", <<>>, s.max_score,
                   computed_score)
       ELSE IF ReachableDiffers(s, region)
       THEN Report("WARNING", "solver.reachable differs from computed reachability",
                   <<>>, "", <<>>, 0, 0)
       ELSE Report("OK", "solution is valid (enclosed) and score matches simulation.",
                   <<>>, "", <<>>, 0, 0)

(***************************************************************************)
(* types.py                                                                *)
(***************************************************************************)
Solution(feasible, max_score, blocks, reachable) ==
    [feasible |-> feasible, max_score |-> max_score, blocks |-> blocks,
     reachable |-> reachable]

(***************************************************************************)
(* solver.py: the CP-SAT model of solve_optimal.  r and b are the sets of  *)
(* nodes whose r_var / b_var is 1, f the value of every flow variable.     *)
(* Nodes are named by their coordinate (idx numbers them one to one).      *)
(***************************************************************************)
\* the model solve_optimal builds: nodes = sorted(adj.keys()), air_nodes,
\* boundary_nodes, values, the list arcs, the keys of the dict f (one flow
\* variable per distinct (u, v)), M = n, and what the constraints read of p
RECURSIVE ArcsFrom(_, _)
ArcsFrom(adj, us) ==
    IF us = <<>> THEN <<>>
    ELSE LET u == Head(us)
         IN [k \in 1..Len(adj[u]) |-> <<u, adj[u][k]>>] \o ArcsFrom(adj, Tail(us))

CpModel(q) ==
    LET adj == build_adjacency(q)
        nodes == SortedCoords(DOMAIN adj)
        arcs == ArcsFrom(adj, nodes)
    IN [nodes |-> DOMAIN adj,
        air_nodes |-> {i \in DOMAIN adj : KindAt(q, i) = "air"},
        boundary_nodes |-> {i \in DOMAIN adj : is_boundary(q, i)},
        values |-> [i \in DOMAIN adj |-> ValueAt(q, i)],
        arcs |-> arcs,
        keys |-> {arcs[k] : k \in 1..Len(arcs)},
        M |-> Len(nodes),
        horse |-> q.horse,
        max_blocks |-> q.max_blocks]

Bit(r, i) == IF i \in r THEN 1 ELSE 0

\* model.Add(b_var[i] == 0) for every node that is not air
NonAirUnblocked(m, b) == \A i \in m.nodes \ m.air_nodes : Bit(b, i) = 0

\* mutant of BoundaryUnreached: the horse's node is exempt
BoundaryUnreached_ExceptHorse(m, r) ==
    \A i \in m.boundary_nodes \ {m.horse} : Bit(r, i) = 0

\* model.Add(r_var[i] == 0) for every boundary node
BoundaryUnreached(m, r) == \A i \in m.boundary_nodes : Bit(r, i) = 0

\* model.Add(r_var[idx[horse]] == 1)
HorseReached(m, r) == Bit(r, m.horse) = 1

\* model.Add(r_var[i] + b_var[i] <= 1) for every air node
BlockedUnreached(m, r, b) == \A i \in m.air_nodes : Bit(r, i) + Bit(b, i) <= 1

\* mutant of BudgetOk: the budget must be spent exactly
BudgetOk_Exact(m, b) == Cardinality(b \cap m.air_nodes) = m.max_blocks

\* mutant of BudgetOk: the budget is off by one
BudgetOk_OffByOne(m, b) == Cardinality(b \cap m.air_nodes) <= m.max_blocks + 1

\* model.Add(sum(b_var[i] for i in air_nodes) <= p.max_blocks)
BudgetOk(m, b) == Cardinality(b \cap m.air_nodes) <= m.max_blocks

\* sum(inflow) (end = 2) or sum(outflow) (end = 1) of node i: one term per
\* element of the list arcs
RECURSIVE FlowSum(_, _, _, _)
FlowSum(f, as, end, i) ==
    IF as = <<>> THEN 0
    ELSE (IF Head(as)[end] = i THEN f[Head(as)] ELSE 0) + FlowSum(f, Tail(as), end, i)

\* f[(u, v)] <= M * r[u] and f[(u, v)] <= M * r[v]
FlowBounded(m, r, f) ==
    \A a \in m.keys : f[a] <= m.M * Bit(r, a[1]) /\ f[a] <= m.M * Bit(r, a[2])

\* flow conservation at every node
FlowConserved(m, r, f) ==
    LET total_reachable_except_horse == Cardinality(r \ {m.horse})
    IN \A i \in m.nodes :
          IF i = m.horse
          THEN FlowSum(f, m.arcs, 1, i) - FlowSum(f, m.arcs, 2, i)
                 = total_reachable_except_horse
          ELSE FlowSum(f, m.arcs, 2, i) - FlowSum(f, m.arcs, 1, i) = Bit(r, i)

\* mutant of FlowExists: the flow constraints are left out
FlowExists_Unconstrained(m, r) == TRUE

\* some value of the flow variables (each in 0..M) satisfies the flow
\* constraints; the bounds leave only arcs between two nodes of r non-zero
FlowExists(m, r) ==
    LET live == {a \in m.keys : a[1] \in r /\ a[2] \in r}
    IN \E g \in [live -> 0..m.M] :
          LET f == [a \in m.keys |-> IF a \in live THEN g[a] ELSE 0]
          IN FlowBounded(m, r, f) /\ FlowConserved(m, r, f)

\* the assignments of r_var and b_var that all constraints admit (with some
\* value of the flow variables)
Assignments(m) ==
    LET rs == {r \in SUBSET m.nodes :
                 BoundaryUnreached(m, r) /\ HorseReached(m, r) /\ FlowExists(m, r)}
        bs == {b \in SUBSET m.nodes : NonAirUnblocked(m, b) /\ BudgetOk(m, b)}
    IN {a \in [r : rs, b : bs] : BlockedUnreached(m, a.r, a.b)}

\* sum(values[i] * r_var[i])
RECURSIVE Objective(_, _)
Objective(m, r) ==
    IF r = {} THEN 0
    ELSE LET i == CHOOSE x \in r : TRUE
         IN m.values[i] * 1 + Objective(m, r \ {i})

NoAssignment == [r |-> {}, b |-> {}]

\* the largest objective value among the assignments all
BestObjective(m, all) ==
    LET scores == {Objective(m, a.r) : a \in all}
    IN CHOOSE v \in scores : \A w \in scores : w <= v

\* the answers of the solver, given the assignments the model admits and the
\* largest objective value among them
Answers(m, all, top) ==
    {[status |-> "OPTIMAL", asg |-> a] : a \in {x \in all : Objective(m, x.r) = top}}
       \cup {[status |-> "FEASIBLE", asg |-> a] : a \in all}
       \cup (IF all = {} THEN {[status |-> "INFEASIBLE", asg |-> NoAssignment]} ELSE {})
       \cup {[status |-> "UNKNOWN", asg |-> NoAssignment]}

\* what solver.Solve(model) may answer within its time limit: a proved
\* optimum, any assignment, proved infeasibility, or nothing (UNKNOWN)
SolverAnswers(m) ==
    LET all == Assignments(m)
    IN Answers(m, all, BestObjective(m, all))

\* the decoding of solve_optimal, from the solver's answer on
Decode(q, m, ans) ==
    IF ans.status \notin {"OPTIMAL", "FEASIBLE"}
    THEN Solution(FALSE, 0, {}, {})
    ELSE Solution(TRUE, Objective(m, ans.asg.r),
                  {rc \in m.nodes : KindAt(q, rc) = "air" /\ Bit(ans.asg.b, rc) = 1},
                  {rc \in m.nodes : Bit(ans.asg.r, rc) = 1})

\* solve_optimal(p): every <<status, Solution>> it may end with
solve_optimal(q) ==
    LET m == CpModel(q)
    IN {<<ans.status, Decode(q, m, ans)>> : ans \in SolverAnswers(m)}

(***************************************************************************)
(* The explored inputs and the state machine of run.py                     *)
(***************************************************************************)
\* the orders a set may be iterated in
Orders(S) ==
    {ord \in [1..Cardinality(S) -> S] : \A i, j \in 1..Cardinality(S) : ord[i] = ord[j] => i = j}

\* the grid lines of an input file in format fmt with a horse on h, the cells
\* of tk on their tokens, the same portal label on the cells of pp and walls
\* elsewhere
TokenGrid(fmt, rows, cols, h, tk, pp) ==
    [r \in 0..(rows - 1) |-> [c \in 0..(cols - 1) |->
        IF <<r, c>> = h THEN "H"
        ELSE IF <<r, c>> \in pp THEN (IF fmt = "expanded" THEN PortalToken ELSE PortalChar)
        ELSE IF <<r, c>> \in DOMAIN tk THEN tk[<<r, c>>]
        ELSE "W"]]

\* the content of a puzzle file: its format, the numbers of its header lines
\* and its grid lines
Input(fmt, rows, cols, max_blocks, lines) ==
    [format |-> fmt, rows |-> rows, cols |-> cols, max_blocks |-> max_blocks,
     lines |-> lines]

\* raw after parse_puzzle_file has returned or raised
NoInput == Input("", 0, 0, 0, <<>>)

NoSolution == Solution(FALSE, 0, {}, {})

NoReport == Report("NONE", "", <<>>, "", <<>>, 0, 0)

\* the explored input files: a horse on a cell of HorseCells or none, up to
\* MaxOpen further cells that are not walls, among them at most two portal
\* cells (one is an unpaired portal) and possibly further horses
Init ==
    /\ \E fmt \in Formats, shape \in Shapes, h \in HorseCells \cup {<<>>},
          k \in 0..MaxBlocks :
         \E S \in SUBSET (FreeCells \ {h}) :
            /\ Cardinality(S) <= MaxOpen
            /\ \E pp \in SUBSET S :
                 /\ Cardinality(pp) <= 2
                 /\ \E tk \in [S \ pp -> OpenTokens \cup {"H"}] :
                      raw = Input(fmt, shape[1], shape[2], k,
                                  TokenGrid(fmt, shape[1], shape[2], h, tk, pp))
    /\ error = ""
    /\ p = NoPuzzle
    /\ pc = "start"
    /\ sol = NoSolution
    /\ order = <<>>
    /\ status = "NONE"
    /\ report = NoReport

\* puzzle = parse_puzzle_file(path); a ValueError ends the program
Parse ==
    /\ pc = "start"
    /\ LET res == parse_puzzle_file(raw)
       IN /\ error' = res.error
          /\ p' = res.puzzle
          /\ pc' = IF res.error = "" THEN "parsed" ELSE "rejected"
    /\ raw' = NoInput
    /\ UNCHANGED <<sol, order, status, report>>

\* result = solve_optimal(puzzle)
Solve ==
    /\ pc = "parsed"
    /\ \E res \in solve_optimal(p) :
         /\ status' = res[1]
         /\ sol' = res[2]
         /\ \E ord \in Orders(res[2].blocks) : order' = ord
    /\ pc' = "solved"
    /\ UNCHANGED <<raw, error, p, report>>

\* the Solutions a caller of verify_solution hands in
Candidates(q) ==
    LET cells == DOMAIN build_adjacency(q) \cup {CHOOSE w \in Coords(q.rows, q.cols) : KindAt(q, w) = "wall"}
    IN {Solution(TRUE, sc, bl, re) :
          sc \in CandScores,
          bl \in {B \in SUBSET cells : Cardinality(B) <= MaxCandBlocks},
          re \in {{}, {q.horse}}}

\* a Solution that did not come from solve_optimal
Candidate ==
    /\ pc = "parsed"
    /\ \E s \in Candidates(p) :
         /\ sol' = s
         /\ \E ord \in Orders(s.blocks) : order' = ord
    /\ status' = "HANDMADE"
    /\ pc' = "solved"
    /\ UNCHANGED <<raw, error, p, report>>

\* print(verify_solution(puzzle, result))
Verify ==
    /\ pc = "solved"
    /\ report' = verify_solution(p, sol, order)
    /\ pc' = "verified"
    /\ UNCHANGED <<raw, error, p, sol, order, status>>

Next == Parse \/ Solve \/ Candidate \/ Verify

Spec == Init /\ [][Next]_vars

(***************************************************************************)
(* Properties                                                              *)
(***************************************************************************)
\* the outer boundary of the grid: row 0, row rows-1, col 0, col cols-1
OnBoundary(q, rc) ==
    rc[1] = 0 \/ rc[1] = q.rows - 1 \/ rc[2] = 0 \/ rc[2] = q.cols - 1

\* the horse is enclosed under the blocks B
Enclosed(q, B) == \A rc \in compute_reachable(q, B) : ~OnBoundary(q, rc)

\* solve_optimal has returned
Solved == pc \in {"solved", "verified"} /\ status \in {"OPTIMAL", "FEASIBLE", "INFEASIBLE", "UNKNOWN"}

\* the block sets the puzzle allows: at most max_blocks air cells
BlockSets(q) ==
    {B \in SUBSET {rc \in Coords(q.rows, q.cols) : KindAt(q, rc) = "air"} :
        Cardinality(B) <= q.max_blocks}

\* C1: every feasible Solution of solve_optimal encloses the horse: the region
\* reachable under its blocks holds no boundary coordinate
C1_FeasibleIsEnclosed == (Solved /\ sol.feasible) => Enclosed(p, sol.blocks)

\* C2: the reachable set of every feasible Solution of solve_optimal is the
\* region reachable from the horse under its blocks
C2_ReachableIsRegion ==
    (Solved /\ sol.feasible) => sol.reachable = compute_reachable(p, sol.blocks)

\* C3: where some block set within the budget encloses the horse, a proved
\* optimum is the best score of such a block set, and the returned blocks
\* enclose the horse with that score
C3_OptimumIsBestEnclosure ==
    (status = "OPTIMAL" /\ \E B \in BlockSets(p) : Enclosed(p, B)) =>
        /\ Enclosed(p, sol.blocks)
        /\ score_region(p, compute_reachable(p, sol.blocks)) = sol.max_score
        /\ \A B \in BlockSets(p) :
              Enclosed(p, B) => score_region(p, compute_reachable(p, B)) <= sol.max_score

\* C4: when no block set within the budget encloses the horse, solve_optimal
\* returns the infeasible Solution
C4_NoEnclosureIsInfeasible ==
    (Solved /\ \A B \in BlockSets(p) : ~Enclosed(p, B)) => sol = Solution(FALSE, 0, {}, {})

\* C5: every Solution of solve_optimal places at most max_blocks blocks
C5_BudgetRespected == Solved => Cardinality(sol.blocks) <= p.max_blocks

\* C5 witness: a proved optimum that spends the whole, non-zero budget
C5_Witness ==
    status = "OPTIMAL" /\ p.max_blocks >= 1 /\ Cardinality(sol.blocks) = p.max_blocks

\* the sum of the cell values over a region
RECURSIVE RegionValue(_, _)
RegionValue(q, region) ==
    IF region = {} THEN 0
    ELSE LET rc == CHOOSE x \in region : TRUE
         IN q.grid[rc[1]][rc[2]].value + RegionValue(q, region \ {rc})

\* verify_solution has returned a report that is not "INVALID: ..."
Accepted == pc = "verified" /\ report.level \in {"OK", "WARNING"}

\* C6: the region recomputed from the blocks of a Solution that verify_solution
\* does not report INVALID holds no boundary coordinate
C6_BoundaryExclusion ==
    Accepted => \A rc \in compute_reachable(p, sol.blocks) : ~OnBoundary(p, rc)

\* C6 witness: an accepted Solution whose block is what keeps the horse in
C6_Witness == Accepted /\ sol.blocks # {} /\ ~Enclosed(p, {})

\* C7: the cell values of the recomputed region of an accepted Solution sum to
\* its max_score; a Solution that passes the block and escape checks with another
\* score is reported "INVALID: score mismatch" with both scores
C7_ScoreAgreement ==
    pc = "verified" =>
        LET value == RegionValue(p, compute_reachable(p, sol.blocks))
        IN /\ report.level # "INVALID" => value = sol.max_score
           /\ ((\A rc \in sol.blocks : KindAt(p, rc) = "air")
                 /\ Enclosed(p, sol.blocks) /\ value # sol.max_score)
              => (report.level = "INVALID" /\ report.what = "score mismatch"
                    /\ report.solver = sol.max_score /\ report.computed = value)

\* C7 witness: an accepted Solution whose region holds a cell of negative value
C7_Witness ==
    Accepted /\ \E rc \in compute_reachable(p, sol.blocks) : p.grid[rc[1]][rc[2]].value < 0

\* C8: a Solution with a block on a cell that is not air is reported "INVALID:
\* block placed on non-air" at one of these blocks, whatever else holds of it;
\* so every Solution not reported INVALID has all its blocks on air
C8_BlockLegality ==
    pc = "verified" =>
        /\ (\E rc \in sol.blocks : KindAt(p, rc) # "air") =>
              /\ report.level = "INVALID" /\ report.what = "block placed on non-air"
              /\ report.at[1] \in sol.blocks /\ KindAt(p, report.at[1]) # "air"
              /\ report.token = p.grid[report.at[1][1]][report.at[1][2]].token
        /\ report.level # "INVALID" => \A rc \in sol.blocks : KindAt(p, rc) = "air"

\* C8 witness: a block on an item refused although the horse is enclosed and
\* the score agrees
C8_Witness ==
    /\ pc = "verified" /\ report.what = "block placed on non-air"
    /\ KindAt(p, report.at[1]) = "item"
    /\ Enclosed(p, sol.blocks)
    /\ RegionValue(p, compute_reachable(p, sol.blocks)) = sol.max_score

\* C9: every Solution verify_solution does not report INVALID places at most
\* max_blocks blocks
C9_AcceptedWithinBudget == Accepted => Cardinality(sol.blocks) <= p.max_blocks

\* C10: verify_solution never issues the path-less escape report: a boundary
\* coordinate in the recomputed region comes with a path; and for every block
\* set without the horse, find_escape_path returns None exactly when the
\* reachable region holds no boundary coordinate
C10_EscapePathIffEscape ==
    /\ pc = "verified" =>
          /\ report.what # "horse can reach boundary cell(s)."
          /\ ((\A rc \in sol.blocks : KindAt(p, rc) = "air") /\ ~Enclosed(p, sol.blocks))
               => (report.what = "horse can escape; example path" /\ report.path # <<>>)
    /\ (pc \in {"solved", "verified"} /\ p.horse \notin sol.blocks) =>
          (find_escape_path(p, sol.blocks) = None <=> Enclosed(p, sol.blocks))

\* C10 witness: an escape reported with a path that takes a portal jump
C10_Witness ==
    /\ pc = "verified" /\ report.what = "horse can escape; example path"
    /\ \E i \in 1..(Len(report.path) - 1) :
          LET a == report.path[i]
              b == report.path[i + 1]
          IN (a[1] - b[1]) * (a[1] - b[1]) + (a[2] - b[2]) * (a[2] - b[2]) > 1

\* one move from a to b: a 4-directional step, or the jump from a portal cell
\* to the other cell of its pair
OneMove(q, a, b) ==
    \/ (a[1] - b[1]) * (a[1] - b[1]) + (a[2] - b[2]) * (a[2] - b[2]) = 1
    \/ /\ KindAt(q, a) = "portal" /\ a # b
       /\ \E pid \in DOMAIN q.portals : {a, b} = {q.portals[pid][1], q.portals[pid][2]}

\* rc is neither a wall nor blocked
Open(q, B, rc) == KindAt(q, rc) # "wall" /\ rc \notin B

\* the coordinates the horse reaches in at most k moves through open cells
RECURSIVE Within(_, _, _)
Within(q, B, k) ==
    IF k = 0 THEN {q.horse}
    ELSE LET X == Within(q, B, k - 1)
         IN X \cup {v \in Coords(q.rows, q.cols) :
                      Open(q, B, v) /\ \E u \in X : OneMove(q, u, v)}

\* path is a shortest escape of the horse under the blocks B
ShortestEscape(q, B, path) ==
    /\ path # <<>> /\ path[1] = q.horse
    /\ OnBoundary(q, path[Len(path)])
    /\ \A i \in 1..Len(path) : Open(q, B, path[i])
    /\ \A i \in 1..(Len(path) - 1) :
          OneMove(q, path[i], path[i + 1]) /\ ~OnBoundary(q, path[i])
    /\ \A k \in 0..(Len(path) - 2) :
          \A rc \in Within(q, B, k) : ~(OnBoundary(q, rc) /\ Open(q, B, rc))

\* the result e of find_escape_path under the blocks B is none or a shortest
\* escape
NoneOrShortest(q, B, e) == ~e.none => ShortestEscape(q, B, e.path)

\* C11 as stated: every path find_escape_path returns, for any block set, is a
\* shortest escape: from the horse to an open boundary coordinate, by single
\* moves, no element a wall or blocked, none but the last on the boundary, and
\* no escape with fewer moves
C11_PathIsShortestEscape ==
    pc = "solved" => NoneOrShortest(p, sol.blocks, find_escape_path(p, sol.blocks))

\* C11 amended: the same, for the block sets that do not hold the horse
C11_PathIsShortestEscapeHorseFree ==
    (pc = "solved" /\ p.horse \notin sol.blocks) =>
        NoneOrShortest(p, sol.blocks, find_escape_path(p, sol.blocks))

\* C11 witness: a returned path of two moves, one of them a portal jump
C11_Witness ==
    /\ pc = "solved" /\ p.horse \notin sol.blocks
    /\ LET e == find_escape_path(p, sol.blocks)
       IN /\ ~e.none /\ Len(e.path) >= 3
          /\ \E i \in 1..(Len(e.path) - 1) :
                KindAt(p, e.path[i]) = "portal" /\ KindAt(p, e.path[i + 1]) = "portal"

\* the coordinates connected to the horse in the graph adj without the
\* coordinates of B
RECURSIVE Connected(_, _, _)
Connected(adj, B, X) ==
    LET Y == X \cup {v \in (DOMAIN adj) \ B :
                       \E u \in X \cap DOMAIN adj : \E i \in 1..Len(adj[u]) : adj[u][i] = v}
    IN IF Y = X THEN X ELSE Connected(adj, B, Y)

\* region is the component of the horse in the graph adj without the
\* coordinates of B, and holds no wall and no coordinate of B
IsComponent(q, B, adj, region) ==
    /\ region = Connected(adj, B, {q.horse})
    /\ \A rc \in region : KindAt(q, rc) # "wall" /\ rc \notin B

\* C12: with the horse not blocked, compute_reachable returns exactly the
\* coordinates connected to the horse in build_adjacency(puzzle) without the
\* blocked coordinates, none of them a wall or blocked
C12_RegionIsAdjacencyComponent ==
    (pc = "solved" /\ p.horse \notin sol.blocks) =>
        IsComponent(p, sol.blocks, build_adjacency(p), compute_reachable(p, sol.blocks))

\* C12 witness: a region that holds both cells of a portal pair that are not
\* grid neighbours
C12_Witness ==
    /\ pc = "solved" /\ p.horse \notin sol.blocks
    /\ \E pid \in DOMAIN p.portals :
          LET a == p.portals[pid][1]
              b == p.portals[pid][2]
          IN /\ {a, b} \subseteq compute_reachable(p, sol.blocks)
             /\ (a[1] - b[1]) * (a[1] - b[1]) + (a[2] - b[2]) * (a[2] - b[2]) > 1

\* the elements of a list
Elements(seq) == {seq[i] : i \in 1..Len(seq)}

\* C13: the keys of build_adjacency are exactly the non-wall coordinates, and
\* the list of a key holds exactly the non-wall coordinates of the grid one
\* move away (4-neighbours, and the paired coordinate of a portal cell); no
\* wall and no out-of-bounds coordinate is a key or an element of a list
C13_AdjacencyIsOneMove ==
    pc = "parsed" =>
        LET adj == build_adjacency(p)
            all == Coords(p.rows, p.cols)
        IN /\ DOMAIN adj = {rc \in all : KindAt(p, rc) # "wall"}
           /\ \A u \in DOMAIN adj :
                 /\ Elements(adj[u]) =
                       {v \in all : KindAt(p, v) # "wall" /\ OneMove(p, u, v)}
                 /\ \A v \in Elements(adj[u]) :
                       in_bounds(p, v[1], v[2]) /\ KindAt(p, v) # "wall"

\* C13 witness: a portal cell away from the boundary whose list holds a
\* non-wall 4-neighbour and the paired coordinate, a wall among its neighbours
C13_Witness ==
    /\ pc = "parsed"
    /\ \E pid \in DOMAIN p.portals : \E k \in {1, 2} :
          LET u == p.portals[pid][k]
              v == p.portals[pid][3 - k]
              ns == Elements(neighbors_4(p, u))
          IN /\ ~OnBoundary(p, u)
             /\ v \notin ns
             /\ \E w \in ns : KindAt(p, w) = "wall"
             /\ Elements(build_adjacency(p)[u]) \cap ns # {}

\* the cells of every portal pair are in each other's list of adj, and region
\* holds both or neither unless the missing one is in B
PortalsSymmetric(q, B, adj, region) ==
    \A pid \in DOMAIN q.portals :
        LET a == q.portals[pid][1]
            b == q.portals[pid][2]
        IN /\ b \in Elements(adj[a]) /\ a \in Elements(adj[b])
           /\ (a \in region /\ b \notin B) => b \in region
           /\ (b \in region /\ a \notin B) => a \in region

\* C14: the two coordinates of every portal label are in each other's
\* adjacency list, and whenever one of them is in the region of
\* compute_reachable and the other is not blocked, the other is in the region
C14_PortalSymmetry ==
    pc = "solved" =>
        PortalsSymmetric(p, sol.blocks, build_adjacency(p),
                         compute_reachable(p, sol.blocks))

\* C14 witness: the region enters a portal pair by its second cell and holds
\* the first, which no 4-directional step from the region reaches
C14_Witness ==
    /\ pc = "solved"
    /\ LET region == compute_reachable(p, sol.blocks)
       IN \E pid \in DOMAIN p.portals :
             LET a == p.portals[pid][1]
                 b == p.portals[pid][2]
             IN /\ {a, b} \subseteq region
                /\ b \in Elements(neighbors_4(p, p.horse))
                /\ Elements(neighbors_4(p, a)) \cap region = {}

\* the block, escape and score checks of verify_solution all pass
ChecksPass ==
    /\ \A rc \in sol.blocks : KindAt(p, rc) = "air"
    /\ Enclosed(p, sol.blocks)
    /\ RegionValue(p, compute_reachable(p, sol.blocks)) = sol.max_score

\* C15: when the block, escape and score checks pass, the report is the
\* WARNING if sol.reachable is non-empty and differs from the recomputed
\* region and the OK otherwise; an INVALID report means one of the three
\* checks failed, whatever sol.reachable is
C15_ReachableMismatchWarns ==
    pc = "verified" =>
        LET region == compute_reachable(p, sol.blocks)
        IN /\ ChecksPass =>
                IF sol.reachable # {} /\ sol.reachable # region
                THEN /\ report.level = "WARNING"
                     /\ report.what = "solver.reachable differs from computed reachability"
                ELSE /\ report.level = "OK"
                     /\ report.what = "solution is valid (enclosed) and score matches simulation."
           /\ report.level = "INVALID" => ~ChecksPass

\* C15 witness: a Solution that passes the three checks with a non-empty
\* reachable set smaller than the recomputed region, reported WARNING
C15_Witness ==
    /\ pc = "verified" /\ ChecksPass /\ report.level = "WARNING"
    /\ sol.reachable # {}
    /\ sol.reachable \subseteq compute_reachable(p, sol.blocks)

\* the Solutions solve_optimal returns for q when run to optimality
RunToOptimality(q) ==
    {res[2] : res \in {x \in solve_optimal(q) : x[1] \in {"OPTIMAL", "INFEASIBLE"}}}

\* C16: with the grid, horse and portals of the puzzle and any budget k up to
\* its max_blocks, the max_score solve_optimal returns when run to optimality
\* is at most the max_score it returns, run to optimality, for the puzzle
C16_BudgetMonotone ==
    pc = "parsed" =>
        LET high == {s.max_score : s \in RunToOptimality(p)}
            low(k) == {s.max_score : s \in RunToOptimality([p EXCEPT !.max_blocks = k])}
        IN \A k \in 0..p.max_blocks : \A lo \in low(k) : \A hi \in high : lo <= hi

\* C16 witness: an optimum of a region of several cells under a non-zero
\* budget, part of the budget spent
C16_Witness ==
    /\ pc = "solved" /\ status = "OPTIMAL"
    /\ p.max_blocks >= 1 /\ sol.blocks # {} /\ Cardinality(sol.reachable) >= 2

\* the input holds exactly one horse cell, and it lies on the grid boundary
SingleHorseOnBoundary(in) ==
    LET horses == {rc \in Coords(in.rows, in.cols) : in.lines[rc[1]][rc[2]] = "H"}
    IN /\ Cardinality(horses) = 1
       /\ \A rc \in horses : OnBoundary(in, rc)

\* C18: parsing an input, expanded or compact, whose single horse cell lies
\* on the grid boundary raises an error and produces no Puzzle
C18_BoundaryHorseRejected ==
    [][(pc = "start" /\ SingleHorseOnBoundary(raw))
          => (pc' = "rejected" /\ error' # "" /\ p' = NoPuzzle)]_vars

\* C19: for a Puzzle whose horse is on the grid boundary no assignment
\* satisfies the model, and solve_optimal returns the infeasible Solution
\* (feasible false, score 0, empty sets), whatever max_blocks is
C19_BoundaryHorseInfeasible ==
    (pc = "solved" /\ Solved /\ OnBoundary(p, p.horse)) =>
        /\ Assignments(CpModel(p)) = {}
        /\ status # "OPTIMAL" /\ status # "FEASIBLE"
        /\ sol = Solution(FALSE, 0, {}, {})

\* C19 witness: a boundary horse next to an air cell, a budget to spend, and
\* the solver's proof of infeasibility
C19_Witness ==
    /\ pc = "solved" /\ status = "INFEASIBLE"
    /\ OnBoundary(p, p.horse) /\ p.max_blocks >= 1
    /\ \E rc \in Elements(neighbors_4(p, p.horse)) : KindAt(p, rc) = "air"

\* C20: in every assignment the model admits, each node of r is joined to
\* the horse by adjacency arcs through nodes of r, and no node of r is
\* blocked or on the boundary; so the reachable set of a feasible Solution of
\* solve_optimal holds the horse and lies within
\* compute_reachable(p, sol.blocks)
C20_FlowConnectsReachable ==
    /\ pc = "parsed" =>
          LET m == CpModel(p)
              adj == build_adjacency(p)
          IN \A a \in Assignments(m) :
                /\ a.r \subseteq Connected(adj, m.nodes \ a.r, {p.horse})
                /\ a.r \cap a.b = {}
                /\ \A rc \in a.r : ~OnBoundary(p, rc)
    /\ (pc = "solved" /\ Solved /\ sol.feasible) =>
          /\ p.horse \in sol.reachable
          /\ sol.reachable \subseteq compute_reachable(p, sol.blocks)

\* C20 witness: an optimum without blocks that leaves out an air cell away
\* from the boundary, which no arc joins to the horse's region
C20_Witness ==
    /\ pc = "solved" /\ status = "OPTIMAL" /\ sol.blocks = {}
    /\ \E rc \in Coords(p.rows, p.cols) :
          /\ KindAt(p, rc) = "air" /\ ~OnBoundary(p, rc)
          /\ rc \notin sol.reachable

\* no element occurs twice in the list
NoRepeat(seq) == \A i, j \in 1..Len(seq) : seq[i] = seq[j] => i = j

\* C21: build_adjacency lists each neighbour at most once per coordinate, so
\* the list arcs of solve_optimal holds each directed arc once (one flow
\* variable per element, each counted once in the flow sums), and a cell off
\* the boundary whose only neighbour is its grid-adjacent portal partner is
\* marked reachable by some assignment when the horse is off the boundary and
\* non-boundary cells join the partner to it
C21_ArcsListedOnce ==
    pc = "parsed" =>
        LET adj == build_adjacency(p)
            m == CpModel(p)
            inner == Connected(adj, m.boundary_nodes, {p.horse})
        IN /\ \A u \in DOMAIN adj : NoRepeat(adj[u])
           /\ NoRepeat(m.arcs) /\ Len(m.arcs) = Cardinality(m.keys)
           /\ \A v \in inner \ {p.horse} :
                 (/\ ~OnBoundary(p, p.horse)
                  /\ Cardinality(Elements(adj[v])) = 1
                  /\ KindAt(p, v) = "portal"
                  /\ Elements(adj[v]) \subseteq Elements(neighbors_4(p, v)))
                 => \E a \in Assignments(m) : v \in a.r

====
